---- MODULE Spec2Model ----
(***************************************************************************)
(* Model of birdseye/mcts.py: the entry point mcts() (layered             *)
(* configuration: builtin defaults, optional ConfigParser file, argparse  *)
(* flags) and the trial loop run_mcts() (run / record / report / persist). *)
(*                                                                         *)
(* Text is a sequence of one-character strings, so that str(), int(),     *)
(* float(), bool() and ConfigParser.getboolean() are computed and not     *)
(* assumed.  Floats carry one decimal digit and are held in tenths.       *)
(***************************************************************************)
EXTENDS Integers, Sequences, FiniteSets, TLC

(***************************************************************************)
(* Bounds of the model.                                                    *)
(***************************************************************************)
\* the trial count of the builtin defaults (100 in __main__, line 160)
MaxTrials == 3

(***************************************************************************)
(* Python values.                                                          *)
(***************************************************************************)
PyNone == [t |-> "none", n |-> 0, s |-> <<>>]
PyErr == [t |-> "error", n |-> 0, s |-> <<>>]
PyInt(k) == [t |-> "int", n |-> k, s |-> <<>>]
\* a float, held in tenths: PyFloat(8) is 0.8, PyFloat(-20) is -2.0
PyFloat(tenths) == [t |-> "float", n |-> tenths, s |-> <<>>]
PyBool(b) == [t |-> "bool", n |-> IF b THEN 1 ELSE 0, s |-> <<>>]
PyStr(chars) == [t |-> "str", n |-> 0, s |-> chars]

\* Python truthiness of a value (used by `if results.plotting:`)
Truthy(v) ==
    CASE v.t = "none" -> FALSE
      [] v.t = "str" -> Len(v.s) > 0
      [] OTHER -> v.n # 0

(***************************************************************************)
(* Text: digits, letters, str(), int(), float(), bool(), getboolean().     *)
(***************************************************************************)
Digits == <<"0", "1", "2", "3", "4", "5", "6", "7", "8", "9">>
Uppers == <<"A", "B", "C", "D", "E", "F", "G", "H", "I", "J", "K", "L", "M",
            "N", "O", "P", "Q", "R", "S", "T", "U", "V", "W", "X", "Y", "Z">>
Lowers == <<"a", "b", "c", "d", "e", "f", "g", "h", "i", "j", "k", "l", "m",
            "n", "o", "p", "q", "r", "s", "t", "u", "v", "w", "x", "y", "z">>

IsDigit(c) == \E k \in 1..10 : Digits[k] = c
DigitVal(c) == (CHOOSE k \in 1..10 : Digits[k] = c) - 1

AllDigits(chars) == Len(chars) > 0 /\ \A k \in 1..Len(chars) : IsDigit(chars[k])

RECURSIVE NatOf(_)
NatOf(chars) ==
    IF chars = <<>> THEN 0
    ELSE 10 * NatOf(SubSeq(chars, 1, Len(chars) - 1)) + DigitVal(chars[Len(chars)])

RECURSIVE NatStr(_)
NatStr(k) ==
    IF k < 10 THEN <<Digits[k + 1]>>
    ELSE Append(NatStr(k \div 10), Digits[(k % 10) + 1])

IntStr(k) == IF k < 0 THEN <<"-">> \o NatStr(-k) ELSE NatStr(k)

Unsigned(chars) ==
    IF Len(chars) > 0 /\ chars[1] \in {"-", "+"} THEN Tail(chars) ELSE chars
Sign(chars) == IF Len(chars) > 0 /\ chars[1] = "-" THEN -1 ELSE 1

\* str.lower()
LowerChar(c) ==
    IF \E k \in 1..26 : Uppers[k] = c
    THEN Lowers[CHOOSE k \in 1..26 : Uppers[k] = c]
    ELSE c
Lower(chars) == [k \in 1..Len(chars) |-> LowerChar(chars[k])]

\* str(value), as ConfigParser.read_dict applies it to the defaults
Str(v) ==
    CASE v.t = "str" -> v.s
      [] v.t = "int" -> IntStr(v.n)
      [] v.t = "bool" -> IF v.n = 1 THEN <<"T", "r", "u", "e">>
                         ELSE <<"F", "a", "l", "s", "e">>
      [] v.t = "float" ->
           LET a == IF v.n < 0 THEN -v.n ELSE v.n
           IN  (IF v.n < 0 THEN <<"-">> ELSE <<>>)
                 \o NatStr(a \div 10) \o <<".">> \o NatStr(a % 10)
      [] OTHER -> <<"N", "o", "n", "e">>

\* int(text): an optional sign and decimal digits, else ValueError
ToInt(chars) ==
    IF AllDigits(Unsigned(chars))
    THEN PyInt(Sign(chars) * NatOf(Unsigned(chars)))
    ELSE PyErr

\* float(text): an optional sign, digits, and optionally a point and one
\* more digit, else ValueError
ToFloat(chars) ==
    LET u == Unsigned(chars)
        dot == IF \E k \in 1..Len(u) : u[k] = "."
               THEN CHOOSE k \in 1..Len(u) : u[k] = "." ELSE 0
    IN  IF dot = 0
        THEN IF AllDigits(u) THEN PyFloat(Sign(chars) * 10 * NatOf(u)) ELSE PyErr
        ELSE IF /\ dot = Len(u) - 1
                /\ AllDigits(SubSeq(u, 1, dot - 1))
                /\ IsDigit(u[Len(u)])
             THEN PyFloat(Sign(chars)
                            * (10 * NatOf(SubSeq(u, 1, dot - 1)) + DigitVal(u[Len(u)])))
             ELSE PyErr

\* bool(text): true for every non-empty text
ToBool(chars) == PyBool(Len(chars) > 0)

BOOLEAN_STATES_TRUE ==
    {<<"1">>, <<"y", "e", "s">>, <<"t", "r", "u", "e">>, <<"o", "n">>}
BOOLEAN_STATES_FALSE ==
    {<<"0">>, <<"n", "o">>, <<"f", "a", "l", "s", "e">>, <<"o", "f", "f">>}

\* the text's truthiness taken for its boolean
ConvertByTruthiness(chars) == PyBool(Len(chars) > 0)

\* ConfigParser.getboolean's conversion of an option's text
ConvertToBoolean(chars) ==
    IF Lower(chars) \in BOOLEAN_STATES_TRUE THEN PyBool(TRUE)
    ELSE IF Lower(chars) \in BOOLEAN_STATES_FALSE THEN PyBool(FALSE)
    ELSE PyErr

(***************************************************************************)
(* Dictionaries (dict, ConfigParser section, argparse Namespace) are       *)
(* functions from a set of keys.                                           *)
(***************************************************************************)
EmptyDict == [k \in {} |-> PyNone]

Restrict(d, keys) == [k \in DOMAIN d \cap keys |-> d[k]]

\* dict(a, **b): the entries of b over those of a
Merge(a, b) ==
    [k \in DOMAIN a \cup DOMAIN b |-> IF k \in DOMAIN b THEN b[k] ELSE a[k]]

\* the eight options that mcts() declares (lines 122-129)
Fields ==
    {"lambda_arg", "collision", "loss", "depth",
     "simulations", "plotting", "trials", "iterations"}

\* type= of each add_argument call (lines 122-129)
ArgType(f) ==
    CASE f \in {"lambda_arg", "collision", "loss", "depth"} -> "float"
      [] f \in {"simulations", "trials", "iterations"} -> "int"
      [] f = "plotting" -> "bool"

\* argparse's _get_value: the type function applied to a text
GetValue(type, chars) ==
    CASE type = "float" -> ToFloat(chars)
      [] type = "int" -> ToInt(chars)
      [] type = "bool" -> ToBool(chars)

(***************************************************************************)
(* Inputs.                                                                 *)
(***************************************************************************)
\* the defaults of __main__ (lines 153-162), the trial count bounded
MainDefaults(plot) ==
    [f \in Fields |->
       CASE f = "lambda_arg" -> PyFloat(8)
         [] f = "collision" -> PyFloat(-20)
         [] f = "loss" -> PyFloat(-20)
         [] f = "depth" -> PyInt(10)
         [] f = "simulations" -> PyInt(500)
         [] f = "plotting" -> PyBool(plot)
         [] f = "trials" -> PyInt(MaxTrials)
         [] f = "iterations" -> PyInt(500)]

\* the fields a caller's mcts_defaults may leave out
MissingChoices == {{}, {"trials"}, {"simulations"}, Fields}

BuiltinChoices ==
    {Restrict(MainDefaults(plot), Fields \ missing) :
        plot \in BOOLEAN, missing \in MissingChoices}

\* texts a configuration file may give, per key
FileTexts ==
    [trials |-> {<<"1">>, <<"2">>},
     plotting |-> {<<"f", "a", "l", "s", "e">>, <<"N", "o">>, <<"o", "n">>,
                   <<"m", "a", "y", "b", "e">>},
     depth |-> {<<"5">>}]

\* texts the command line may give, per flag
CliTexts ==
    [trials |-> {<<"1">>, <<"x">>},
     plotting |-> {<<"t", "r", "u", "e">>, <<"f", "a", "l", "s", "e">>, <<>>},
     lambda_arg |-> {<<"0", ".", "5">>}]

\* every dictionary that gives some of the keys of `texts` one of their texts
Dicts(texts) ==
    UNION {[keys -> UNION {texts[k] : k \in keys}] : keys \in SUBSET DOMAIN texts}

TextDicts(texts) == {d \in Dicts(texts) : \A k \in DOMAIN d : d[k] \in texts[k]}

NoFile == [given |-> FALSE, sections |-> EmptyDict]

\* the `args` parameter of mcts(): None, or a ConfigParser with its sections
FileChoices ==
    {NoFile}
      \cup {[given |-> TRUE, sections |-> [s \in {"Other"} |-> EmptyDict]]}
      \cup {[given |-> TRUE, sections |-> [s \in {"Defaults"} |-> d]] :
              d \in TextDicts(FileTexts)}

\* sys.argv: the flags given, each with its text
CliChoices == TextDicts(CliTexts)

(***************************************************************************)
(* State.                                                                  *)
(***************************************************************************)
VARIABLES
    entry,          \* which function the caller invoked: "mcts" or "run_mcts"
    mcts_defaults,  \* parameter mcts_defaults
    file_args,      \* parameter args of mcts(): the file configuration
    argv,           \* the command line read by parse_known_args()
    env_given,      \* whether the caller passed env
    pc,             \* position in mcts() / run_mcts()
    err,            \* the exception that left the program, "none" if none
    clock,          \* datetime.now(), a logical clock
    defaults,       \* local `defaults` of mcts()
    config,         \* local `config` of mcts(): None or the ConfigParser
    args,           \* local `args` of mcts() after parse_known_args()
    env_built,      \* whether mcts() built the default environment
    headers,        \* the calls made to write_header_log (their config)
    cfg,            \* parameter `config` of run_mcts()
    locals,         \* simulations, DEPTH, num_runs, iterations, plotting
    results,        \* the Results instance, None before line 58
    run_data,       \* run_data
    mcts_coll,      \* mcts_coll
    mcts_loss,      \* mcts_loss
    i,              \* loop variable i of line 70
    result,         \* result of the latest mcts_trial call
    started,        \* the calls made to mcts_trial (their trial index)
    returned,       \* the payloads mcts_trial returned, in order
    printed,        \* the reports printed by lines 90-97
    writes,         \* the calls made to results.write_dataframe (run_data)
    gifs            \* the calls made to results.save_gif (their index)

inputs == <<entry, mcts_defaults, file_args, argv, env_given>>
mctsVars == <<defaults, config, args, env_built, headers>>
runVars ==
    <<cfg, locals, results, run_data, mcts_coll, mcts_loss, i, result,
      started, returned, printed, writes, gifs>>
vars == <<inputs, pc, err, clock, mctsVars, runVars>>

NoConfig == [set |-> FALSE, default |-> EmptyDict, sections |-> EmptyDict]
NoNamespace == [set |-> FALSE, ns |-> EmptyDict]
NoResults == [made |-> FALSE, num_iters |-> PyNone, plotting |-> PyNone]
NoResult == <<>>

Init ==
    /\ entry \in {"mcts", "run_mcts"}
    /\ mcts_defaults \in BuiltinChoices
    /\ file_args \in FileChoices
    /\ argv \in CliChoices
    /\ env_given \in BOOLEAN
    \* a direct call of run_mcts(env) passes an env and neither file nor flags
    /\ entry = "run_mcts" => file_args = NoFile /\ argv = EmptyDict /\ env_given
    /\ pc = entry
    /\ err = "none"
    /\ clock = 0
    /\ defaults = EmptyDict
    /\ config = NoConfig
    /\ args = NoNamespace
    /\ env_built = FALSE
    /\ headers = <<>>
    /\ cfg = NoNamespace
    /\ locals = EmptyDict
    /\ results = NoResults
    /\ run_data = <<>>
    /\ mcts_coll = 0
    /\ mcts_loss = 0
    /\ i = 0
    /\ result = NoResult
    /\ started = <<>>
    /\ returned = <<>>
    /\ printed = <<>>
    /\ writes = <<>>
    /\ gifs = <<>>

\* an exception leaves the program
Raise(name) == pc' = "error" /\ err' = name

(***************************************************************************)
(* mcts(), lines 105-148.                                                  *)
(***************************************************************************)
\* ConfigParser(defaults) followed by read_dict(sections) (lines 111-112)
MakeConfigParser(dflts, sections) ==
    [set |-> TRUE,
     default |-> [k \in DOMAIN dflts |-> Str(dflts[k])],
     sections |-> sections]

\* config.items(section): the section's options over those of DEFAULT
Items(parser, section) == Merge(parser.default, parser.sections[section])

\* config.getboolean(section, option)
GetBoolean(parser, section, option) ==
    ConvertToBoolean(Items(parser, section)[option])

\* lines 113-115: dict(config.items("Defaults")) with plotting made a bool
FileDefaults(parser) ==
    LET items == Items(parser, "Defaults")
    IN  [k \in DOMAIN items |->
           IF k = "plotting" THEN GetBoolean(parser, "Defaults", "plotting")
           ELSE PyStr(items[k])]

\* lines 107-115
ReadFileConfig ==
    /\ pc = "mcts"
    /\ IF ~file_args.given
       THEN /\ defaults' = mcts_defaults
            /\ pc' = "parse"
            /\ UNCHANGED <<config, err>>
       ELSE LET parser == MakeConfigParser(mcts_defaults, file_args.sections)
            IN  /\ config' = parser
                /\ IF "Defaults" \notin DOMAIN parser.sections
                   THEN Raise("NoSectionError") /\ UNCHANGED defaults
                   ELSE IF "plotting" \notin DOMAIN Items(parser, "Defaults")
                   THEN Raise("NoOptionError")
                          /\ defaults' =
                               [k \in DOMAIN Items(parser, "Defaults") |->
                                  PyStr(Items(parser, "Defaults")[k])]
                   ELSE IF GetBoolean(parser, "Defaults", "plotting") = PyErr
                   THEN Raise("ValueError")
                          /\ defaults' =
                               [k \in DOMAIN Items(parser, "Defaults") |->
                                  PyStr(Items(parser, "Defaults")[k])]
                   ELSE /\ defaults' = FileDefaults(parser)
                        /\ pc' = "parse"
                        /\ UNCHANGED err
    /\ UNCHANGED <<inputs, clock, args, env_built, headers, runVars>>

\* the value parse_known_args gives option f: the flag's text through the
\* option's type when the flag is given, else the default set by
\* set_defaults (a default that is a text goes through the type as well),
\* else None
ArgValue(f, dflts, cli) ==
    IF f \in DOMAIN cli THEN GetValue(ArgType(f), cli[f])
    ELSE IF f \notin DOMAIN dflts THEN PyNone
    ELSE IF dflts[f].t = "str" THEN GetValue(ArgType(f), dflts[f].s)
    ELSE dflts[f]

\* the Namespace of lines 117-130
ParseKnownArgs(dflts, cli) ==
    [f \in Fields \cup DOMAIN dflts |->
       IF f \in Fields THEN ArgValue(f, dflts, cli) ELSE dflts[f]]

\* lines 117-130; a text its type rejects ends the program (parser.error)
ParseArgs ==
    /\ pc = "parse"
    /\ LET ns == ParseKnownArgs(defaults, argv)
       IN  IF \E f \in DOMAIN ns : ns[f] = PyErr
           THEN Raise("SystemExit") /\ UNCHANGED args
           ELSE /\ args' = [set |-> TRUE, ns |-> ns]
                /\ pc' = "env"
                /\ UNCHANGED err
    /\ UNCHANGED <<inputs, clock, defaults, config, env_built, headers, runVars>>

\* lines 132-137
SetupEnv ==
    /\ pc = "env"
    /\ env_built' = ~env_given
    /\ pc' = "header"
    /\ UNCHANGED <<inputs, err, clock, defaults, config, args, headers, runVars>>

\* lines 139-141: the header is handed `config`, the ConfigParser
WriteHeaderLog ==
    /\ pc = "header"
    /\ clock' = clock + 1
    /\ headers' = IF config.set
                  THEN Append(headers, [config |-> config, time |-> clock'])
                  ELSE headers
    /\ pc' = "call"
    /\ UNCHANGED <<inputs, err, defaults, config, args, env_built, runVars>>

\* lines 143-148: run_mcts(env=env, config=args, ...)
CallRunMcts ==
    /\ pc = "call"
    /\ cfg' = args
    /\ pc' = "run_mcts"
    /\ UNCHANGED <<inputs, err, clock, mctsVars, locals, results, run_data,
                   mcts_coll, mcts_loss, i, result, started, returned,
                   printed, writes, gifs>>

(***************************************************************************)
(* Collaborators of run_mcts().                                            *)
(***************************************************************************)
\* the horizon handed to mcts_trial (line 76)
Horizon == 20

\* running counts a trial may report at payload positions 6 and 7
CountSeqs == {<<1>>, <<0, 2>>}

\* what mcts_trial may return: positions 0..5 opaque, 6 and 7 the running
\* collision and loss counts
EngineResults ==
    {<<"r0", "r1", "r2", "r3", "r4", "r5", coll, loss>> :
        coll \in CountSeqs, loss \in CountSeqs}

\* Results(method_name, global_start_time, num_iters, plotting): the sink
\* keeps the plotting flag it is constructed with
Results(num_iters, plotting) ==
    [made |-> TRUE, num_iters |-> num_iters, plotting |-> plotting]

(***************************************************************************)
(* run_mcts(), lines 15-102.                                               *)
(***************************************************************************)
\* the attributes lines 51-55 read, by the local each is bound to
Reads ==
    [simulations |-> "simulations", DEPTH |-> "depth", num_runs |-> "trials",
     iterations |-> "iterations", plotting |-> "plotting"]

\* lines 49-50: SimpleNamespace(**mcts_defaults) when config is None
Namespace(c, dflts) == IF c.set THEN c.ns ELSE dflts

\* lines 49-55
ReadConfig ==
    /\ pc = "run_mcts"
    /\ LET ns == Namespace(cfg, mcts_defaults)
       IN  IF \E l \in DOMAIN Reads : Reads[l] \notin DOMAIN ns
           THEN Raise("AttributeError") /\ UNCHANGED locals
           ELSE /\ locals' = [l \in DOMAIN Reads |-> ns[Reads[l]]]
                /\ pc' = "results"
                /\ UNCHANGED err
    /\ UNCHANGED <<inputs, clock, mctsVars, cfg, results, run_data, mcts_coll,
                   mcts_loss, i, result, started, returned, printed, writes,
                   gifs>>

\* lines 58-69
MakeResults ==
    /\ pc = "results"
    /\ results' = Results(locals.num_runs, locals.plotting)
    /\ run_data' = <<>>
    /\ mcts_loss' = 0
    /\ mcts_coll' = 0
    /\ pc' = "loop"
    /\ UNCHANGED <<inputs, err, clock, mctsVars, cfg, locals, i, result,
                   started, returned, printed, writes, gifs>>

\* range(1, num_runs + 1) accepts an int (or bool) bound only
RangeOk(num_runs) == num_runs.t \in {"int", "bool"}

\* line 70: the next index of range(1, num_runs + 1), or the end of the loop
LoopNext ==
    /\ pc = "loop"
    /\ IF ~RangeOk(locals.num_runs)
       THEN Raise("TypeError") /\ UNCHANGED i
       ELSE /\ UNCHANGED err
            /\ IF i < locals.num_runs.n
               THEN i' = i + 1 /\ pc' = "trial"
               ELSE pc' = "done" /\ UNCHANGED i
    /\ UNCHANGED <<inputs, clock, mctsVars, cfg, locals, results, run_data,
                   mcts_coll, mcts_loss, result, started, returned, printed,
                   writes, gifs>>

\* the arguments of the mcts_trial call of lines 72-82
TrialCall(index) ==
    [index |-> index, iterations |-> locals.iterations, depth |-> locals.DEPTH,
     horizon |-> Horizon, plotting |-> locals.plotting,
     simulations |-> locals.simulations]

\* line 84: [datetime.now(), run_time] + result[1:]
Record(now, run_time, res) == <<now, run_time>> \o Tail(res)

\* the record put in front of the earlier ones
PrependRecord(data, rec) == <<rec>> \o data

\* line 84: run_data.append(record)
AppendRecord(data, rec) == Append(data, rec)

\* a handler that logs the trial's failure and goes on with the next trial
TrialRaiseSwallowed == pc' = "loop" /\ err' = "TrialExecutionError"

\* lines 72-82: nothing catches what mcts_trial raises
TrialRaise == Raise("TrialExecutionError")

\* lines 71-84: the trial runs and its record is appended, or it raises
Trial ==
    /\ pc = "trial"
    /\ started' = Append(started, TrialCall(i))
    /\ \/ /\ TrialRaise
          /\ clock' = clock + 1
          /\ UNCHANGED <<result, returned, run_data>>
       \/ \E res \in EngineResults :
            /\ result' = res
            /\ returned' = Append(returned, res)
            /\ clock' = clock + 3
            /\ run_data' =
                 AppendRecord(run_data,
                              Record(clock + 3, (clock + 2) - (clock + 1), res))
            /\ pc' = "report"
            /\ UNCHANGED err
    /\ UNCHANGED <<inputs, mctsVars, cfg, locals, results, mcts_coll,
                   mcts_loss, i, printed, writes, gifs>>

\* result[k], positions counted from 0
At(seq, k) == seq[k + 1]

\* seq[-1]
LastOf(seq) == seq[Len(seq)]

\* line 88
CollCount(res) == LastOf(At(res, 6))

\* the loss count read at the collision count's position
LossCountAtSix(res) == LastOf(At(res, 6))

\* line 89
LossCount(res) == LastOf(At(res, 7))

\* lines 95-96: count / i, a fraction; a zero divisor raises
Rate(count, runs) ==
    IF runs = 0 THEN PyErr ELSE [t |-> "ratio", n |-> count, s |-> <<runs>>]

\* lines 88-97
Report ==
    /\ pc = "report"
    /\ mcts_coll' = CollCount(result)
    /\ mcts_loss' = LossCount(result)
    /\ IF Rate(mcts_coll', i) = PyErr
       THEN Raise("ZeroDivisionError") /\ UNCHANGED printed
       ELSE /\ printed' =
                 Append(printed,
                        [runs |-> i, simulations |-> locals.simulations,
                         depth |-> locals.DEPTH,
                         collision_rate |-> Rate(mcts_coll', i),
                         loss_rate |-> Rate(mcts_loss', i)])
            /\ pc' = "write"
            /\ UNCHANGED err
    /\ UNCHANGED <<inputs, clock, mctsVars, cfg, locals, results, run_data, i,
                   result, started, returned, writes, gifs>>

\* only the newest record handed to the sink
RunDataLatest(data) == <<data[Len(data)]>>

\* line 100: the argument run_data=run_data, the whole list
RunDataArg(data) == data

\* line 100
WriteDataframe ==
    /\ pc = "write"
    /\ writes' = Append(writes, RunDataArg(run_data))
    /\ pc' = "gif"
    /\ UNCHANGED <<inputs, err, clock, mctsVars, cfg, locals, results,
                   run_data, mcts_coll, mcts_loss, i, result, started,
                   returned, printed, gifs>>

\* the artifact written whatever the flag
ShouldPlotAlways(sink) == TRUE

\* line 101
ShouldPlot(sink) == Truthy(sink.plotting)

\* lines 101-102
SaveGif ==
    /\ pc = "gif"
    /\ gifs' = IF ShouldPlot(results) THEN Append(gifs, i) ELSE gifs
    /\ pc' = "loop"
    /\ UNCHANGED <<inputs, err, clock, mctsVars, cfg, locals, results,
                   run_data, mcts_coll, mcts_loss, i, result, started,
                   returned, printed, writes>>

Next ==
    \/ ReadFileConfig
    \/ ParseArgs
    \/ SetupEnv
    \/ WriteHeaderLog
    \/ CallRunMcts
    \/ ReadConfig
    \/ MakeResults
    \/ LoopNext
    \/ Trial
    \/ Report
    \/ WriteDataframe
    \/ SaveGif

Spec == Init /\ [][Next]_vars

(***************************************************************************)
(* Vocabulary of the properties.                                           *)
(***************************************************************************)
\* the numeric value of an int, float or bool, in tenths
Tenths(v) == IF v.t = "float" THEN v.n ELSE 10 * v.n

IsNumber(v) == v.t \in {"int", "float", "bool"}

\* equality of values as numbers (10 and 10.0 are equal), else identity
PyEq(a, b) ==
    IF IsNumber(a) /\ IsNumber(b) THEN Tenths(a) = Tenths(b) ELSE a = b

IsPrefix(a, b) == Len(a) <= Len(b) /\ SubSeq(b, 1, Len(a)) = a

\* the boolean a text spells: "true", "false", or "invalid"
Spelling(chars) ==
    LET low == Lower(chars)
    IN  IF low \in {<<"1">>, <<"y", "e", "s">>, <<"t", "r", "u", "e">>, <<"o", "n">>}
        THEN "true"
        ELSE IF low \in {<<"0">>, <<"n", "o">>, <<"f", "a", "l", "s", "e">>,
                         <<"o", "f", "f">>}
        THEN "false"
        ELSE "invalid"

\* a text read in the declared type of field f
Declared(f, chars) ==
    IF ArgType(f) = "bool"
    THEN (IF Spelling(chars) = "invalid" THEN PyErr
          ELSE PyBool(Spelling(chars) = "true"))
    ELSE GetValue(ArgType(f), chars)

FileGivesDefaults == file_args.given /\ "Defaults" \in DOMAIN file_args.sections
FileSection == file_args.sections["Defaults"]

CliGives(f) == f \in DOMAIN argv
FileGives(f) == FileGivesDefaults /\ f \in DOMAIN FileSection
BuiltinGives(f) == f \in DOMAIN mcts_defaults
Specified(f) == CliGives(f) \/ FileGives(f) \/ BuiltinGives(f)

\* the value of field f in the highest layer that gives it (cli > file > builtin)
LayerValue(f) ==
    IF CliGives(f) THEN Declared(f, argv[f])
    ELSE IF FileGives(f) THEN Declared(f, FileSection[f])
    ELSE mcts_defaults[f]

\* mcts() has handed its configuration to run_mcts
Handed == entry = "mcts" /\ cfg.set

TrialsDone == Len(returned)

(***************************************************************************)
(* C1: for every field, the value mcts() hands to run_mcts is the value of *)
(* the highest-precedence layer that gives the field (cli > file >         *)
(* builtin); a flag that is not given replaces nothing.                    *)
(***************************************************************************)
C1_HandedValueIsHighestLayer ==
    Handed =>
      \A f \in Fields :
        Specified(f) /\ LayerValue(f) # PyErr => PyEq(cfg.ns[f], LayerValue(f))

\* the same, for every field but a plotting flag given on the command line
PrecedenceBelowCliPlotting ==
    Handed =>
      \A f \in Fields :
        /\ Specified(f) /\ ~(f = "plotting" /\ CliGives(f))
             => PyEq(cfg.ns[f], LayerValue(f))
        /\ ~CliGives(f) /\ (FileGives(f) \/ BuiltinGives(f))
             => cfg.ns[f] # PyNone

(***************************************************************************)
(* C2: write_dataframe is called once per completed trial, after the       *)
(* trial's record is appended and before the next trial starts; the k-th   *)
(* call receives k records, and each call's argument extends the one       *)
(* before it.                                                              *)
(***************************************************************************)
C2_OneWritePerTrialPrefixes ==
    /\ \A k \in 1..Len(writes) :
         /\ Len(writes[k]) = k
         /\ k > 1 => IsPrefix(writes[k - 1], writes[k])
         /\ IsPrefix(writes[k], run_data)
    /\ pc \in {"report", "write"} => Len(writes) = TrialsDone - 1
    /\ pc \in {"gif", "loop", "trial", "done"} => Len(writes) = TrialsDone
    /\ pc = "trial" => Len(writes) = i - 1

C2_Witness ==
    /\ pc = "done"
    /\ Len(writes) = 3
    /\ writes[3][1] # writes[3][2]

(***************************************************************************)
(* C3: when mcts_trial raises on trial k, write_dataframe has been called  *)
(* k-1 times (the last with k-1 records), trial k has no record, no later  *)
(* trial starts, and the error leaves run_mcts uncaught.                   *)
(***************************************************************************)
C3_TrialFailureStopsRun ==
    err = "TrialExecutionError" =>
      LET k == Len(started)
      IN  /\ k >= 1 /\ started[k].index = k /\ i = k
          /\ Len(writes) = k - 1
          /\ k > 1 => Len(writes[k - 1]) = k - 1
          /\ Len(run_data) = k - 1
          /\ TrialsDone = k - 1
          /\ pc = "error"
          /\ ~ENABLED Next

C3_Witness ==
    /\ err = "TrialExecutionError"
    /\ Len(started) = 2
    /\ locals.num_runs = PyInt(3)
    /\ Len(writes) = 1

\* what C4 asks of run_data in one state
C4_RecordsInOrder ==
    /\ Len(run_data) = TrialsDone
    /\ \A j \in 1..Len(run_data) :
         /\ started[j].index = j
         /\ Tail(Tail(run_data[j])) = Tail(returned[j])
         /\ j > 1 => run_data[j - 1][1] < run_data[j][1]
    /\ pc = "done" => Len(run_data) = locals.num_runs.n

(***************************************************************************)
(* C4: run_data holds one record per completed trial, the j-th being the   *)
(* record of trial j; it only grows, at its end; a run of N trials without *)
(* error ends with N records in trial order.                               *)
(***************************************************************************)
C4_RunDataOnlyGrows ==
    [][IsPrefix(run_data, run_data') /\ C4_RecordsInOrder']_vars

C4_Witness ==
    /\ pc = "done"
    /\ Len(run_data) = 3
    /\ Tail(Tail(run_data[1])) # Tail(Tail(run_data[2]))

(***************************************************************************)
(* C5: save_gif is called only when the resolved plotting flag is true:    *)
(* then once per completed trial, with the trial's index, after the        *)
(* trial's write_dataframe call; with the flag false it is never called.   *)
(***************************************************************************)
C5_GifOnlyWhenPlotting ==
    IF "plotting" \in DOMAIN locals /\ locals.plotting = PyBool(TRUE)
    THEN /\ \A k \in 1..Len(gifs) : gifs[k] = k
         /\ Len(gifs) <= Len(writes)
         /\ pc \in {"report", "write", "gif"} => Len(gifs) = TrialsDone - 1
         /\ pc \in {"loop", "trial", "done"} => Len(gifs) = TrialsDone
    ELSE gifs = <<>>

C5_Witness ==
    /\ pc = "done"
    /\ locals.plotting = PyBool(TRUE)
    /\ gifs = <<1, 2, 3>>

\* a run of three trials with plotting false
C5_WitnessNoPlot ==
    /\ pc = "done"
    /\ locals.plotting = PyBool(FALSE)
    /\ Len(writes) = 3

(***************************************************************************)
(* C6: every flag given on the command line resolves its field to the      *)
(* flag's text read in the field's declared type; `--plotting true` gives  *)
(* True and a false value given to `--plotting` gives False.               *)
(***************************************************************************)
C6_FlagReadInDeclaredType ==
    Handed =>
      \A f \in DOMAIN argv :
        Declared(f, argv[f]) # PyErr => PyEq(cfg.ns[f], Declared(f, argv[f]))

(***************************************************************************)
(* C7: when a required field is given by no layer, the run fails at once   *)
(* with a configuration error: no unset field reaches run_mcts, the        *)
(* results sink is not constructed and no trial runs.                      *)
(***************************************************************************)
C7_UnresolvedFieldFailsEarly ==
    entry = "mcts" /\ (\E f \in Fields : ~Specified(f)) =>
      /\ ~cfg.set
      /\ ~results.made
      /\ started = <<>>

(***************************************************************************)
(* C8: the plotting field of a file configuration is read by boolean       *)
(* parsing: a text that spells false resolves plotting to False, and a     *)
(* text that spells no boolean makes mcts() fail before the environment is *)
(* built, the header logged, the sink constructed or a trial run.          *)
(***************************************************************************)
C8_FilePlottingParsedAsBoolean ==
    entry = "mcts" /\ FileGives("plotting") /\ pc # "mcts" =>
      IF Spelling(FileSection["plotting"]) = "invalid"
      THEN /\ pc = "error" /\ err = "ValueError"
           /\ ~args.set /\ ~cfg.set
           /\ ~env_built /\ headers = <<>> /\ ~results.made /\ started = <<>>
      ELSE /\ err # "ValueError"
           /\ defaults["plotting"] = PyBool(Spelling(FileSection["plotting"]) = "true")
           /\ args.set /\ ~CliGives("plotting") =>
                args.ns["plotting"] = PyBool(Spelling(FileSection["plotting"]) = "true")
           /\ results.made /\ ~CliGives("plotting") =>
                results.plotting = PyBool(Spelling(FileSection["plotting"]) = "true")

C8_Witness ==
    /\ FileGives("plotting")
    /\ FileSection["plotting"] = <<"N", "o">>
    /\ BuiltinGives("plotting") /\ mcts_defaults["plotting"] = PyBool(TRUE)
    /\ ~CliGives("plotting")
    /\ pc = "done"
    /\ results.plotting = PyBool(FALSE)
    /\ Len(writes) >= 1

\* a file whose plotting text spells no boolean
C8_WitnessInvalid ==
    /\ FileGives("plotting")
    /\ FileSection["plotting"] = <<"m", "a", "y", "b", "e">>
    /\ pc = "error"

(***************************************************************************)
(* C9: the rates reported after trial k are the last element of position 6 *)
(* and of position 7 of trial k's own payload, each divided by k; the      *)
(* divisor is never 0 and nothing is carried over from an earlier trial.   *)
(***************************************************************************)
C9_RatesFromLatestPayload ==
    /\ err # "ZeroDivisionError"
    /\ pc = "report" => i >= 1
    /\ Len(printed) <= TrialsDone
    /\ \A k \in 1..Len(printed) :
         LET coll == returned[k][7]
             loss == returned[k][8]
             rep == printed[k]
         IN  /\ rep.runs = k
             /\ rep.collision_rate.s # <<>> /\ rep.collision_rate.s[1] = k
             /\ rep.loss_rate.s # <<>> /\ rep.loss_rate.s[1] = k
             /\ rep.collision_rate.n = coll[Len(coll)]
             /\ rep.loss_rate.n = loss[Len(loss)]
    /\ pc \in {"write", "gif"} =>
         /\ mcts_coll = result[7][Len(result[7])]
         /\ mcts_loss = result[8][Len(result[8])]

C9_Witness ==
    /\ Len(printed) = 2
    /\ printed[1].collision_rate.n # printed[2].collision_rate.n
    /\ printed[2].collision_rate.n # printed[2].loss_rate.n
    /\ returned[2][7][1] # printed[2].collision_rate.n

\* the configuration a header call was handed: the "Defaults" options
HeaderItems(h) == Items(h.config, "Defaults")

HeaderRecordsEffective(h) ==
    \A f \in Fields \cap DOMAIN HeaderItems(h) :
      PyEq(Declared(f, HeaderItems(h)[f]), args.ns[f])

OneHeaderBeforeTrials ==
    /\ Len(headers) <= 1
    /\ ~file_args.given => headers = <<>>
    /\ headers # <<>> => args.set
    /\ file_args.given /\ (cfg.set \/ started # <<>>) => Len(headers) = 1

(***************************************************************************)
(* C10: with a file configuration exactly one header is written, after     *)
(* the configuration is resolved and before the first trial, and it        *)
(* records the configuration the trials run with; without a file           *)
(* configuration no header is written.                                     *)
(***************************************************************************)
C10_HeaderRecordsEffectiveConfig ==
    /\ OneHeaderBeforeTrials
    /\ \A k \in 1..Len(headers) : HeaderRecordsEffective(headers[k])

\* the header records the file configuration over the builtin defaults,
\* as it was before the command line was read
HeaderRecordsFileConfig ==
    \A k \in 1..Len(headers) :
      HeaderItems(headers[k])
        = Merge([f \in DOMAIN mcts_defaults |-> Str(mcts_defaults[f])], FileSection)

====
